---- MODULE Spec2Model ----
(***************************************************************************)
(* Road-network graph database: the dashboard script (scripts/dashboard.py) *)
(* that queries the graph store and derives the metrics, and the loader     *)
(* script (scripts/parse_data.py) that turns the raw edge list into the     *)
(* two CSV tables the store imports.                                        *)
(***************************************************************************)
EXTENDS Integers, Sequences, FiniteSets, Bags, TLC

(***************************************************************************)
(* Bounds of the model.                                                     *)
(***************************************************************************)
\* dense graphs: few intersections, many roads (degrees 0..5+ all occur)
MaxNodes == 2
MaxRoads == 5
\* wide graphs: more intersections than the ranking's LIMIT, few roads
MaxNodesTopK == 11
MaxRoadsTopK == 1
\* row sets up to this size are returned in every possible order
MaxPermute == 3

\* usa.txt: records after the header, the largest count the header may state,
\* and the largest id or coordinate
MaxLines == 3
MaxCount == 2
MaxToken == 2

\* LIMIT 10 of top10_query
TopK == 10

VARIABLES
    nodes,                \* graph store: ids of the :Intersection nodes
    roads,                \* graph store: bag of <<source, target>> :ROAD relationships
    pc,                   \* dashboard.py: position of the script
    driverOpen,           \* dashboard.py: driver created and not yet closed
    fault,                \* dashboard.py: the exception that ended the run, or "none"
    total_intersections,
    total_roads,
    avg_degree,           \* in hundredths
    degree_df,            \* sequence of [degree, count]
    top10_df,             \* sequence of [intersection_id, degree]
    categories_df,        \* sequence of [category, count]
    top10_sorted,
    categories_sorted,
    most_common_type,
    most_common_pct,      \* in tenths of a percent
    max_connections,
    lines,                \* parse_data.py: the records of usa.txt, each its fields
    ppc,                  \* parse_data.py: position of parse_data()
    perr,                 \* parse_data.py: the exception that ended it, or "none"
    num_vertices,
    num_edges,
    vertices,             \* the dict, as <<id, x, y>> in insertion order
    edges,                \* list of <<source, target>>
    idx,                  \* the loop variable i, or the number of roads written
    written,              \* the output files that exist on disk
    intersections_csv,    \* rows of intersections.csv
    roads_csv             \* rows of roads.csv

dashVars == <<pc, driverOpen, fault, total_intersections, total_roads, avg_degree,
              degree_df, top10_df, categories_df, top10_sorted, categories_sorted,
              most_common_type, most_common_pct, max_connections>>
storeVars == <<nodes, roads>>
parseVars == <<lines, ppc, perr, num_vertices, num_edges, vertices, edges, idx,
               written, intersections_csv, roads_csv>>
vars == <<lines, ppc, perr, num_vertices, num_edges, vertices, edges, idx,
          written, intersections_csv, roads_csv, nodes, roads, pc, driverOpen, fault, total_intersections, total_roads,
          avg_degree, degree_df, top10_df, categories_df, top10_sorted,
          categories_sorted, most_common_type, most_common_pct, max_connections>>

None == "none"

(***************************************************************************)
(* Helpers: sums, orders, sorts.                                            *)
(***************************************************************************)
RECURSIVE SumOver(_, _)
\* sum of f[x] over the finite set S
SumOver(S, f) ==
    IF S = {} THEN 0
    ELSE LET x == CHOOSE y \in S : TRUE IN f[x] + SumOver(S \ {x}, f)

RECURSIVE SumSeq(_)
SumSeq(s) == IF s = <<>> THEN 0 ELSE Head(s) + SumSeq(Tail(s))

MinOf(S) == CHOOSE x \in S : \A y \in S : x <= y
MaxOf(S) == CHOOSE x \in S : \A y \in S : x >= y

RECURSIVE Ascending(_)
\* the integers of S as an ascending sequence
Ascending(S) ==
    IF S = {} THEN <<>> ELSE <<MinOf(S)>> \o Ascending(S \ {MinOf(S)})

Reverse(s) == [k \in 1..Len(s) |-> s[Len(s) + 1 - k]]

Take(s, n) == SubSeq(s, 1, IF Len(s) < n THEN Len(s) ELSE n)

\* round(num / den) to the nearest integer, halves to even (Python's round)
RoundHalfEven(num, den) ==
    LET q == num \div den
        r == num % den
    IN  IF 2 * r < den THEN q
        ELSE IF 2 * r > den THEN q + 1
        ELSE IF q % 2 = 0 THEN q ELSE q + 1

\* The orders in which a query without a total ORDER BY may yield the rows of
\* the integer set S: every permutation of a small set, the ascending and the
\* descending order of a larger one.
RowOrders(S) ==
    IF Cardinality(S) <= MaxPermute
    THEN {f \in [1..Cardinality(S) -> S] : \A a, b \in 1..Cardinality(S) : f[a] = f[b] => a = b}
    ELSE {Ascending(S), Reverse(Ascending(S))}

\* insert row r into the sequence s sorted on field key, after its equals
RECURSIVE InsertAsc(_, _, _)
InsertAsc(s, r, key) ==
    IF s = <<>> THEN <<r>>
    ELSE IF r[key] < Head(s)[key] THEN <<r>> \o s
    ELSE <<Head(s)>> \o InsertAsc(Tail(s), r, key)

RECURSIVE InsertDesc(_, _, _)
InsertDesc(s, r, key) ==
    IF s = <<>> THEN <<r>>
    ELSE IF r[key] > Head(s)[key] THEN <<r>> \o s
    ELSE <<Head(s)>> \o InsertDesc(Tail(s), r, key)

RECURSIVE SortAscBy(_, _)
\* stable sort of the rows on field key, ascending
SortAscBy(rows, key) ==
    IF rows = <<>> THEN <<>>
    ELSE InsertAsc(SortAscBy(SubSeq(rows, 1, Len(rows) - 1), key), rows[Len(rows)], key)

RECURSIVE SortDescBy(_, _)
\* stable sort of the rows on field key, descending
SortDescBy(rows, key) ==
    IF rows = <<>> THEN <<>>
    ELSE InsertDesc(SortDescBy(SubSeq(rows, 1, Len(rows) - 1), key), rows[Len(rows)], key)

(***************************************************************************)
(* The graph store and the four Cypher queries of dashboard.py.             *)
(***************************************************************************)
\* the store imports one row of intersections.csv: a new :Intersection node
CreateIntersection(maxNodes) ==
    /\ pc = "load"
    /\ Cardinality(nodes) < maxNodes
    /\ nodes' = nodes \cup {Cardinality(nodes) + 1}
    /\ UNCHANGED <<roads, dashVars, parseVars>>

\* the store imports one row of roads.csv: a new :ROAD relationship; nothing
\* forbids a second road between the same pair, nor a road from a node to itself
CreateRoad(maxRoads) ==
    /\ pc = "load"
    /\ BagCardinality(roads) < maxRoads
    /\ \E s \in nodes, t \in nodes :
          roads' = roads (+) SetToBag({<<s, t>>})
    /\ UNCHANGED <<nodes, dashVars, parseVars>>

\* mutant: MATCH (i:Intersection)-[:ROAD]-(), which no isolated node matches
MatchConnected == {i \in nodes : \E p \in BagToSet(roads) : p[1] = i \/ p[2] = i}

\* MATCH (i:Intersection)
MatchIntersections == nodes

\* COUNT { (i)-[:ROAD]-() }: one match per relationship that has i at an end;
\* the undirected pattern matches a relationship from i to i once
Degree(i) ==
    LET incident == {p \in BagToSet(roads) : p[1] = i \/ p[2] = i}
    IN  SumOver(incident, roads)

\* MATCH (i:Intersection) RETURN count(i)
CountIntersections == Cardinality(MatchIntersections)

\* MATCH ()-[r:ROAD]->() RETURN count(r)
CountRoads == BagCardinality(roads)

\* round((2 * total_roads) / total_intersections, 2), in hundredths
AvgDegree(nRoads, nIntersections) == RoundHalfEven(2 * nRoads * 100, nIntersections)

\* MATCH (i:Intersection) WITH i, COUNT {...} AS degree: one row per matched
\* node, in the order the store yields them
DegreeRows(order) ==
    [k \in 1..Len(order) |-> [intersection_id |-> order[k], degree |-> Degree(order[k])]]

\* degree_query: RETURN degree, count(*) AS count ORDER BY degree
DegreeQuery(groupOrder) ==
    LET groups == [k \in 1..Len(groupOrder) |->
                     [degree |-> groupOrder[k],
                      count  |-> Cardinality({i \in MatchIntersections :
                                                Degree(i) = groupOrder[k]})]]
    IN  SortAscBy(groups, "degree")

\* mutant: ORDER BY degree without DESC
Top10QueryAscending(order) == Take(SortAscBy(DegreeRows(order), "degree"), TopK)

\* top10_query: RETURN i.id, degree ORDER BY degree DESC LIMIT 10
Top10Query(order) == Take(SortDescBy(DegreeRows(order), "degree"), TopK)

CategoryNames ==
    <<"Dead End (1 road)", "Pass Through (2 roads)", "T-Junction (3 roads)",
      "Crossroad (4 roads)", "Major Hub (5+ roads)">>

\* the CASE expression of categories_query, as the index of the label
CategoryOf(degree) ==
    IF degree = 1 THEN 1
    ELSE IF degree = 2 THEN 2
    ELSE IF degree = 3 THEN 3
    ELSE IF degree = 4 THEN 4
    ELSE 5

\* mutant: the CASE without its ELSE arm, the rows of no category dropped
CategoriesQueryNoElse(groupOrder) ==
    LET groups == [k \in 1..Len(groupOrder) |->
                     [category |-> CategoryNames[groupOrder[k]],
                      count    |-> Cardinality({i \in MatchIntersections :
                                                  /\ Degree(i) >= 1
                                                  /\ CategoryOf(Degree(i)) = groupOrder[k]})]]
    IN  SortDescBy(groups, "count")

\* categories_query: RETURN CASE ... END AS category, count(*) AS count
\* ORDER BY count DESC
CategoriesQuery(groupOrder) ==
    LET groups == [k \in 1..Len(groupOrder) |->
                     [category |-> CategoryNames[groupOrder[k]],
                      count    |-> Cardinality({i \in MatchIntersections :
                                                  CategoryOf(Degree(i)) = groupOrder[k]})]]
    IN  SortDescBy(groups, "count")

\* DataFrame.sort_values(key, ascending=True) with the default sort kind, which
\* is not a stable sort: rows with equal keys may come out in any order
SortValuesAscending(df, key) ==
    {SortAscBy([k \in 1..Len(df) |-> df[p[k]]], key) : p \in RowOrders(1..Len(df))}

\* categories_df.loc[categories_df['count'].idxmax(), 'category']: the first
\* row that holds the largest count
MostCommonType(df) ==
    LET top == MaxOf({df[k].count : k \in 1..Len(df)})
        first == MinOf({k \in 1..Len(df) : df[k].count = top})
    IN  df[first].category

\* round(categories_df['count'].max() / total_intersections * 100, 1), in tenths
MostCommonPct(df, nIntersections) ==
    RoundHalfEven(MaxOf({df[k].count : k \in 1..Len(df)}) * 1000, nIntersections)

(***************************************************************************)
(* dashboard.py, statement by statement.                                    *)
(***************************************************************************)
\* driver = GraphDatabase.driver(URI, auth=AUTH)
OpenDriver ==
    /\ pc = "load"
    /\ pc' = "totals"
    /\ driverOpen' = TRUE
    /\ UNCHANGED <<parseVars, storeVars, fault, total_intersections, total_roads, avg_degree,
                   degree_df, top10_df, categories_df, top10_sorted,
                   categories_sorted, most_common_type, most_common_pct,
                   max_connections>>

\* the exception leaves the script: nothing after the raising statement runs
Raise(exception) ==
    /\ pc' = "crashed"
    /\ fault' = exception
    /\ UNCHANGED driverOpen

\* [1/4] the two counts and the average degree
FetchTotals ==
    /\ pc = "totals"
    /\ total_intersections' = CountIntersections
    /\ total_roads' = CountRoads
    /\ IF CountIntersections = 0
       THEN /\ Raise("ZeroDivisionError")
            /\ UNCHANGED avg_degree
       ELSE /\ avg_degree' = AvgDegree(CountRoads, CountIntersections)
            /\ pc' = "degree"
            /\ UNCHANGED <<driverOpen, fault>>
    /\ UNCHANGED <<parseVars, storeVars, degree_df, top10_df, categories_df, top10_sorted,
                   categories_sorted, most_common_type, most_common_pct,
                   max_connections>>

\* [2/4] degree_df = pd.DataFrame(run_query(degree_query))
FetchDegree ==
    /\ pc = "degree"
    /\ \E groupOrder \in RowOrders({Degree(i) : i \in MatchIntersections}) :
          degree_df' = DegreeQuery(groupOrder)
    /\ pc' = "top10"
    /\ UNCHANGED <<parseVars, storeVars, driverOpen, fault, total_intersections, total_roads,
                   avg_degree, top10_df, categories_df, top10_sorted,
                   categories_sorted, most_common_type, most_common_pct,
                   max_connections>>

\* [3/4] top10_df = pd.DataFrame(run_query(top10_query))
FetchTop10 ==
    /\ pc = "top10"
    /\ \E order \in RowOrders(MatchIntersections) :
          top10_df' = Top10Query(order)
    /\ pc' = "categories"
    /\ UNCHANGED <<parseVars, storeVars, driverOpen, fault, total_intersections, total_roads,
                   avg_degree, degree_df, categories_df, top10_sorted,
                   categories_sorted, most_common_type, most_common_pct,
                   max_connections>>

\* [4/4] categories_df = pd.DataFrame(run_query(categories_query))
FetchCategories ==
    /\ pc = "categories"
    /\ \E groupOrder \in RowOrders({CategoryOf(Degree(i)) : i \in MatchIntersections}) :
          categories_df' = CategoriesQuery(groupOrder)
    /\ pc' = "charts"
    /\ UNCHANGED <<parseVars, storeVars, driverOpen, fault, total_intersections, total_roads,
                   avg_degree, degree_df, top10_df, top10_sorted,
                   categories_sorted, most_common_type, most_common_pct,
                   max_connections>>

\* session.run raises (store unreachable, query timeout) in any of the fetches
QueryFails ==
    /\ pc \in {"totals", "degree", "top10", "categories"}
    /\ Raise("ServiceUnavailable")
    /\ UNCHANGED <<parseVars, storeVars, total_intersections, total_roads, avg_degree,
                   degree_df, top10_df, categories_df, top10_sorted,
                   categories_sorted, most_common_type, most_common_pct,
                   max_connections>>

\* charts 1 to 3: the two frames re-sorted ascending for the horizontal bars
BuildCharts ==
    /\ pc = "charts"
    /\ top10_sorted' \in SortValuesAscending(top10_df, "degree")
    /\ categories_sorted' \in SortValuesAscending(categories_df, "count")
    /\ pc' = "insights"
    /\ UNCHANGED <<parseVars, storeVars, driverOpen, fault, total_intersections, total_roads,
                   avg_degree, degree_df, top10_df, categories_df,
                   most_common_type, most_common_pct, max_connections>>

\* chart 4: the key insights
BuildInsights ==
    /\ pc = "insights"
    /\ most_common_type' = MostCommonType(categories_df)
    /\ most_common_pct' = MostCommonPct(categories_df, total_intersections)
    /\ max_connections' = MaxOf({degree_df[k].degree : k \in 1..Len(degree_df)})
    /\ pc' = "save"
    /\ UNCHANGED <<parseVars, storeVars, driverOpen, fault, total_intersections, total_roads,
                   avg_degree, degree_df, top10_df, categories_df, top10_sorted,
                   categories_sorted>>

\* fig.write_html(output_path); fig.show()
SaveDashboard ==
    /\ pc = "save"
    /\ pc' = "close"
    /\ UNCHANGED <<parseVars, storeVars, driverOpen, fault, total_intersections, total_roads,
                   avg_degree, degree_df, top10_df, categories_df, top10_sorted,
                   categories_sorted, most_common_type, most_common_pct,
                   max_connections>>

\* fig.write_html cannot write the report (no reports directory)
SaveFails ==
    /\ pc = "save"
    /\ Raise("OSError")
    /\ UNCHANGED <<parseVars, storeVars, total_intersections, total_roads, avg_degree,
                   degree_df, top10_df, categories_df, top10_sorted,
                   categories_sorted, most_common_type, most_common_pct,
                   max_connections>>

\* driver.close()
CloseDriver ==
    /\ pc = "close"
    /\ driverOpen' = FALSE
    /\ pc' = "done"
    /\ UNCHANGED <<parseVars, storeVars, fault, total_intersections, total_roads, avg_degree,
                   degree_df, top10_df, categories_df, top10_sorted,
                   categories_sorted, most_common_type, most_common_pct,
                   max_connections>>

\* the dashboard before its first statement, the store empty
DashboardIdle ==
    /\ nodes = {}
    /\ roads = EmptyBag
    /\ pc = "load"
    /\ driverOpen = FALSE
    /\ fault = None
    /\ total_intersections = 0
    /\ total_roads = 0
    /\ avg_degree = 0
    /\ degree_df = <<>>
    /\ top10_df = <<>>
    /\ categories_df = <<>>
    /\ top10_sorted = <<>>
    /\ categories_sorted = <<>>
    /\ most_common_type = None
    /\ most_common_pct = 0
    /\ max_connections = 0

\* parse_data() not called
ParseIdle ==
    /\ lines = <<>>
    /\ ppc = "idle"
    /\ perr = None
    /\ num_vertices = 0
    /\ num_edges = 0
    /\ vertices = <<>>
    /\ edges = <<>>
    /\ idx = 0
    /\ written = {}
    /\ intersections_csv = <<>>
    /\ roads_csv = <<>>

Init == DashboardIdle /\ ParseIdle

Dashboard ==
    \/ OpenDriver
    \/ FetchTotals
    \/ FetchDegree
    \/ FetchTop10
    \/ FetchCategories
    \/ QueryFails
    \/ BuildCharts
    \/ BuildInsights
    \/ SaveDashboard
    \/ SaveFails
    \/ CloseDriver

Next ==
    \/ CreateIntersection(MaxNodes)
    \/ CreateRoad(MaxRoads)
    \/ Dashboard

NextTopK ==
    \/ CreateIntersection(MaxNodesTopK)
    \/ CreateRoad(MaxRoadsTopK)
    \/ Dashboard

Spec == Init /\ [][Next]_vars

SpecTopK == Init /\ [][NextTopK]_vars

(***************************************************************************)
(* parse_data.py: parse_data(), statement by statement.  A record of the    *)
(* file is the sequence of its whitespace-separated fields; lines[1] is the *)
(* header (Python's lines[0]), so Python's lines[i] is lines[i + 1] here.   *)
(***************************************************************************)
Tokens == 1..MaxToken

Records == UNION {[1..n -> Tokens] : n \in 0..3}

Bodies == UNION {[1..n -> Records] : n \in 0..MaxLines}

InputFiles == {<<h>> \o b : h \in [1..2 -> 0..MaxCount], b \in Bodies}

\* vertex_id in vertices
HasVertex(v, id) == \E k \in 1..Len(v) : v[k][1] = id

\* vertices[vertex_id]
VertexAt(v, id) == v[CHOOSE k \in 1..Len(v) : v[k][1] = id]

\* vertices[vertex_id] = (x, y): a known key keeps its place in the dict
PutVertex(v, id, x, y) ==
    IF HasVertex(v, id)
    THEN [k \in 1..Len(v) |-> IF v[k][1] = id THEN <<id, x, y>> ELSE v[k]]
    ELSE Append(v, <<id, x, y>>)

Abs(n) == IF n < 0 THEN -n ELSE n

\* round(math.sqrt((x2 - x1)**2 + (y2 - y1)**2), 2), in hundredths
Distance(x1, y1, x2, y2) ==
    LET d2 == (x2 - x1) * (x2 - x1) + (y2 - y1) * (y2 - y1)
        lo == CHOOSE r \in 0..(100 * (Abs(x2 - x1) + Abs(y2 - y1))) :
                  r * r <= 10000 * d2 /\ 10000 * d2 < (r + 1) * (r + 1)
    IN  IF 4 * 10000 * d2 > (2 * lo + 1) * (2 * lo + 1) THEN lo + 1 ELSE lo

\* an exception leaves parse_data(): the files written so far stay on disk
ParseRaise(exception) ==
    /\ ppc' = "crashed"
    /\ perr' = exception

\* lines 12-18: read the file, take the two counts from the header
ReadHeader ==
    /\ ppc = "idle"
    /\ num_vertices' = lines[1][1]
    /\ num_edges' = lines[1][2]
    /\ idx' = 1
    /\ ppc' = "vertices"
    /\ UNCHANGED <<lines, perr, vertices, edges, written, intersections_csv,
                   roads_csv, storeVars, dashVars>>

\* lines 27-32: one turn of the loop over range(1, num_vertices + 1)
ParseVertex ==
    /\ ppc = "vertices"
    /\ idx <= num_vertices
    /\ IF idx + 1 > Len(lines) \/ Len(lines[idx + 1]) < 3
       THEN /\ ParseRaise("IndexError")
            /\ UNCHANGED <<vertices, idx>>
       ELSE /\ vertices' = PutVertex(vertices, lines[idx + 1][1],
                                     lines[idx + 1][2], lines[idx + 1][3])
            /\ idx' = idx + 1
            /\ UNCHANGED <<ppc, perr>>
    /\ UNCHANGED <<lines, num_vertices, num_edges, edges, written,
                   intersections_csv, roads_csv, storeVars, dashVars>>

\* the loop over the vertices ends; lines 35-38 start the loop over the rest
EndVertices ==
    /\ ppc = "vertices"
    /\ idx > num_vertices
    /\ idx' = num_vertices + 1
    /\ ppc' = "edges"
    /\ UNCHANGED <<lines, perr, num_vertices, num_edges, vertices, edges, written,
                   intersections_csv, roads_csv, storeVars, dashVars>>

\* lines 38-43: one turn of the loop over range(num_vertices + 1, len(lines))
ParseEdgeLine ==
    /\ ppc = "edges"
    /\ idx < Len(lines)
    /\ edges' = IF Len(lines[idx + 1]) >= 2
                THEN Append(edges, <<lines[idx + 1][1], lines[idx + 1][2]>>)
                ELSE edges
    /\ idx' = idx + 1
    /\ UNCHANGED <<lines, ppc, perr, num_vertices, num_edges, vertices, written,
                   intersections_csv, roads_csv, storeVars, dashVars>>

\* lines 45-55: the loop ends; intersections.csv is written whole and closed
WriteIntersections ==
    /\ ppc = "edges"
    /\ idx >= Len(lines)
    /\ intersections_csv' = <<<<"id", "x", "y">>>> \o vertices
    /\ written' = written \cup {"intersections.csv"}
    /\ ppc' = "open_roads"
    /\ UNCHANGED <<lines, perr, num_vertices, num_edges, vertices, edges, idx,
                   roads_csv, storeVars, dashVars>>

\* lines 60-62: roads.csv is created and its header row written
OpenRoads ==
    /\ ppc = "open_roads"
    /\ roads_csv' = <<<<"source", "target", "distance">>>>
    /\ written' = written \cup {"roads.csv"}
    /\ idx' = 0
    /\ ppc' = "roads"
    /\ UNCHANGED <<lines, perr, num_vertices, num_edges, vertices, edges,
                   intersections_csv, storeVars, dashVars>>

\* lines 63-68: one turn of the loop over edges; idx roads are written
WriteRoad ==
    /\ ppc = "roads"
    /\ idx < Len(edges)
    /\ LET source == edges[idx + 1][1]
           target == edges[idx + 1][2]
       IN  IF ~HasVertex(vertices, source) \/ ~HasVertex(vertices, target)
           THEN /\ ParseRaise("KeyError")
                /\ UNCHANGED <<roads_csv, idx>>
           ELSE /\ roads_csv' =
                     Append(roads_csv,
                            <<source, target,
                              Distance(VertexAt(vertices, source)[2],
                                       VertexAt(vertices, source)[3],
                                       VertexAt(vertices, target)[2],
                                       VertexAt(vertices, target)[3])>>)
                /\ idx' = idx + 1
                /\ UNCHANGED <<ppc, perr>>
    /\ UNCHANGED <<lines, num_vertices, num_edges, vertices, edges, written,
                   intersections_csv, storeVars, dashVars>>

\* lines 70-73: the loop ends, roads.csv is closed, "Done!"
FinishParse ==
    /\ ppc = "roads"
    /\ idx >= Len(edges)
    /\ ppc' = "done"
    /\ UNCHANGED <<lines, perr, num_vertices, num_edges, vertices, edges, idx,
                   written, intersections_csv, roads_csv, storeVars, dashVars>>

\* parse_data() is about to run on some usa.txt; no output file exists yet
InitParse ==
    /\ DashboardIdle
    /\ lines \in InputFiles
    /\ ppc = "idle"
    /\ perr = None
    /\ num_vertices = 0
    /\ num_edges = 0
    /\ vertices = <<>>
    /\ edges = <<>>
    /\ idx = 0
    /\ written = {}
    /\ intersections_csv = <<>>
    /\ roads_csv = <<>>

NextParse ==
    \/ ReadHeader
    \/ ParseVertex
    \/ EndVertices
    \/ ParseEdgeLine
    \/ WriteIntersections
    \/ OpenRoads
    \/ WriteRoad
    \/ FinishParse

SpecParse == InitParse /\ [][NextParse]_vars

(***************************************************************************)
(* Properties.                                                              *)
(***************************************************************************)
AfterDegree == pc \in {"top10", "categories", "charts", "insights", "save", "close", "done"}
AfterTop10 == pc \in {"categories", "charts", "insights", "save", "close", "done"}
AfterCategories == pc \in {"charts", "insights", "save", "close", "done"}
AfterInsights == pc \in {"save", "close", "done"}

Rows(df) == 1..Len(df)

\* the count the histogram reports for degree d (0 when d is no key)
HistCount(d) ==
    SumSeq([k \in Rows(degree_df) |->
              IF degree_df[k].degree = d THEN degree_df[k].count ELSE 0])

\* the count reported for the category label name (0 when it has no row)
CategoryCount(name) ==
    SumSeq([k \in Rows(categories_df) |->
              IF categories_df[k].category = name THEN categories_df[k].count ELSE 0])

IsIsolated(i) == \A p \in BagToSet(roads) : p[1] # i /\ p[2] # i

\* C1: once the degree distribution is fetched, the degrees it reports, summed
\* over all nodes, are twice the number of roads the total-roads query counted
\* (duplicate roads and self-loops included).
C1_DegreeSumIsTwiceRoads ==
    AfterDegree =>
        SumSeq([k \in Rows(degree_df) |-> degree_df[k].degree * degree_df[k].count])
            = 2 * total_roads

\* C2: the ranking holds min(10, nodeCount) distinct nodes of the graph, each
\* with its degree, sorted by degree descending, and no node left out has a
\* higher degree than a node returned.
C2_TopKByDegree ==
    AfterTop10 =>
        LET returned == {top10_df[k].intersection_id : k \in Rows(top10_df)}
        IN  /\ Len(top10_df) = IF Cardinality(nodes) < TopK THEN Cardinality(nodes) ELSE TopK
            /\ returned \subseteq nodes
            /\ Cardinality(returned) = Len(top10_df)
            /\ \A k \in Rows(top10_df) :
                  top10_df[k].degree = Degree(top10_df[k].intersection_id)
            /\ \A j, k \in Rows(top10_df) :
                  j < k => top10_df[j].degree >= top10_df[k].degree
            /\ \A k \in Rows(top10_df) : \A i \in nodes \ returned :
                  top10_df[k].degree >= Degree(i)

\* C2 witness: more nodes than the limit, so a node is cut off, and the
\* ranking holds nodes of different degrees
C2_Witness ==
    /\ AfterTop10
    /\ Cardinality(nodes) > TopK
    /\ Len(top10_df) = TopK
    /\ top10_df[1].degree > top10_df[TopK].degree

\* C3: in the ranking, nodes of equal degree appear in ascending id order, and
\* of the nodes that share the degree at the cutoff the smaller ids are the
\* ones returned.
C3_TiesByIdAscending ==
    AfterTop10 =>
        LET returned == {top10_df[k].intersection_id : k \in Rows(top10_df)}
        IN  /\ \A j, k \in Rows(top10_df) :
                  (j < k /\ top10_df[j].degree = top10_df[k].degree)
                      => top10_df[j].intersection_id < top10_df[k].intersection_id
            /\ \A k \in Rows(top10_df) : \A i \in nodes \ returned :
                  Degree(i) = top10_df[k].degree => top10_df[k].intersection_id < i

\* the classification C4 states: degree 0 belongs to none of the five buckets
ClaimedCategory(degree) ==
    IF degree = 0 THEN 0
    ELSE IF degree >= 5 THEN 5
    ELSE degree

\* C4: each of the five named buckets counts exactly the nodes of its degrees
\* (1, 2, 3, 4, 5 and more); a node of degree 0 is counted in none of them.
C4_IsolatedInNoBucket ==
    AfterCategories =>
        \A c \in 1..5 :
            CategoryCount(CategoryNames[c])
                = Cardinality({i \in nodes : ClaimedCategory(Degree(i)) = c})

\* C5: the histogram partitions the node set: for every degree d, 0 included,
\* its count for d is the number of nodes with exactly d incident roads; its
\* keys are unique and ascending; its counts sum to the number of nodes.
C5_HistogramPartitionsNodes ==
    AfterDegree =>
        /\ \A d \in 0..BagCardinality(roads) :
              HistCount(d) = Cardinality({i \in nodes : Degree(i) = d})
        /\ \A j, k \in Rows(degree_df) :
              j < k => degree_df[j].degree < degree_df[k].degree
        /\ \A k \in Rows(degree_df) : degree_df[k].count >= 1
        /\ SumSeq([k \in Rows(degree_df) |-> degree_df[k].count]) = Cardinality(nodes)

\* C5 witness: a histogram over a graph with an isolated node, a node with a
\* self-loop and a duplicate road
C5_Witness ==
    /\ AfterDegree
    /\ \E i \in nodes : IsIsolated(i)
    /\ \E i \in nodes : <<i, i>> \in BagToSet(roads)
    /\ \E p \in BagToSet(roads) : roads[p] >= 2
    /\ Len(degree_df) >= 2

\* C6: the category counts sum to the number of nodes, and the dominant
\* category's percentage (in tenths) is its count over the node count, rounded,
\* and never more than 100.
C6_CategoriesPartitionNodes ==
    /\ AfterCategories =>
          /\ SumSeq([k \in Rows(categories_df) |-> categories_df[k].count])
                = Cardinality(nodes)
          /\ total_intersections = Cardinality(nodes)
    /\ AfterInsights =>
          /\ most_common_pct <= 1000
          /\ \E k \in Rows(categories_df) :
                /\ categories_df[k].category = most_common_type
                /\ \A j \in Rows(categories_df) :
                      categories_df[j].count <= categories_df[k].count
                /\ most_common_pct
                      = RoundHalfEven(categories_df[k].count * 1000, Cardinality(nodes))

\* C6 witness: the percentage computed over a graph with an isolated node and
\* more than one category
C6_Witness ==
    /\ AfterInsights
    /\ \E i \in nodes : IsIsolated(i)
    /\ Len(categories_df) >= 2
    /\ most_common_pct < 1000

\* C7: on a graph without nodes the run does not end in a division by zero.
C7_EmptyGraphNoFault ==
    nodes = {} => fault # "ZeroDivisionError"

\* C8: when parse_data aborts on an edge that names an unknown node id, no
\* output table has been written.
C8_DanglingEdgeNoOutput ==
    (ppc = "crashed" /\ perr = "KeyError") => written = {}

\* the file is as its header says: nodeCount records of three fields, then
\* edgeCount records of at least two
WellFormed(f) ==
    /\ Len(f) = 1 + f[1][1] + f[1][2]
    /\ \A k \in 2..Len(f) :
          IF k <= 1 + f[1][1] THEN Len(f[k]) = 3 ELSE Len(f[k]) >= 2

\* C9: on a file whose counts or records are malformed, parse_data ends in
\* an error and has written no table.
C9_MalformedInputAborts ==
    (ppc \in {"done", "crashed"} /\ ~WellFormed(lines))
        => (ppc = "crashed" /\ written = {})

\* C10: when the dashboard run has ended, normally or by an exception, the
\* driver is closed.
C10_DriverClosedAtExit ==
    pc \in {"done", "crashed"} => ~driverOpen

====
